---- MODULE Spec2Model ----
(***************************************************************************)
(* Binary search tree engine of bst_visualizer.py (classes BSTNode, BST),  *)
(* and the node_item map of BSTVisualizer with the handlers that write it. *)
(*                                                                         *)
(* The state is the heap of BSTNode objects together with BST.root.  Node  *)
(* objects are identified by positive integers; key, left, right and       *)
(* parent are functions from the identities of the objects that exist to   *)
(* the value of that field.  BSTNode is declared eq=False, so the program  *)
(* only ever compares nodes by identity and cannot observe which identity  *)
(* a new object gets; any identity that no existing object has stands for  *)
(* the same behaviour up to a renaming of the objects.  The model picks    *)
(* one representative: see NewId.                                          *)
(*                                                                         *)
(* An object exists as long as it is referenced.  The references are       *)
(* BST.root, the fields of existing nodes, and the value the last call     *)
(* returned to its caller, which the caller drops when it makes the next   *)
(* call.  So a node returned by BST.delete keeps its (stale) fields until  *)
(* the next call and is reclaimed then.  The keys of BSTVisualizer's       *)
(* node_item are references too; a handler's local names are dropped when  *)
(* the handler returns.                                                    *)
(***************************************************************************)
EXTENDS Integers, Sequences, FiniteSets, TLC

VARIABLES root, key, left, right, parent, last, node_item

vars == <<root, key, left, right, parent, last, node_item>>

\* Python's None, as a node reference.
None == 0

\* What a call yields in place of a node when it raises AttributeError: the
\* exception of an attribute access such as x.left with x None.
AttributeError == -1

\* Bound of the model: keys are drawn from 1..MaxKey.
MaxKey == 5

Keys == 1..MaxKey

\* The BST object together with the fields of every existing node, as one
\* value.
bst == [root |-> root, key |-> key, left |-> left, right |-> right,
        parent |-> parent]

\* The identities of the node objects that exist in heap t.
Objs(t) == DOMAIN t.key

\* Nodes referenced from the set S of nodes through any field, and S itself.
RECURSIVE Referenced(_, _)
Referenced(t, S) ==
    LET F == {t.left[n] : n \in S} \cup {t.right[n] : n \in S}
                 \cup {t.parent[n] : n \in S}
        S2 == S \cup (F \ {None})
    IN  IF S2 = S THEN S ELSE Referenced(t, S2)

\* The heap once the caller has dropped what the last call returned: only
\* the objects referenced from BST.root remain.
collect(t) ==
    LET R == Referenced(t, {t.root} \ {None})
    IN  [root |-> t.root,
         key |-> [n \in R |-> t.key[n]],
         left |-> [n \in R |-> t.left[n]],
         right |-> [n \in R |-> t.right[n]],
         parent |-> [n \in R |-> t.parent[n]]]

\* The identity of the object constructed next in heap t by BSTNode(key=k):
\* an identity no existing object has.  It is k itself when no existing object
\* has identity k (the keys inserted are positive), and the smallest identity
\* not in use otherwise.
NewId(t, k) ==
    IF k > None /\ k \notin Objs(t) THEN k
    ELSE CHOOSE z \in 1..(Cardinality(Objs(t)) + 1) :
             z \notin Objs(t) /\ \A m \in 1..(z - 1) : m \in Objs(t)

\* BSTNode.is_left_child
is_left_child(t, n) ==
    t.parent[n] # None /\ t.left[t.parent[n]] = n

\* BSTNode.is_right_child
is_right_child(t, n) ==
    t.parent[n] # None /\ t.right[t.parent[n]] = n

\* BSTNode(key=k) constructed without its parent argument.
BSTNode_without_parent(t, k, p) ==
    LET z == NewId(t, k)
    IN  [t EXCEPT !.key = (z :> k) @@ @, !.left = (z :> None) @@ @,
                  !.right = (z :> None) @@ @, !.parent = (z :> None) @@ @]

\* BSTNode(key=k, parent=p): the heap with the new node NewId(t, k) in it; left
\* and right take their default None.
BSTNode(t, k, p) ==
    LET z == NewId(t, k)
    IN  [t EXCEPT !.key = (z :> k) @@ @, !.left = (z :> None) @@ @,
                  !.right = (z :> None) @@ @, !.parent = (z :> p) @@ @]

\* The while loop of BST.insert without its test for an equal key.
RECURSIVE insert_loop_no_equal(_, _, _, _)
insert_loop_no_equal(t, k, x, y) ==
    IF x = None THEN [dup |-> None, y |-> y]
    ELSE insert_loop_no_equal(t, k,
             IF k < t.key[x] THEN t.left[x] ELSE t.right[x], x)

\* The while loop of BST.insert from the state (x, y): the node holding k
\* (dup) or the last node visited before falling off the tree (y).
RECURSIVE insert_loop(_, _, _, _)
insert_loop(t, k, x, y) ==
    IF x = None THEN [dup |-> None, y |-> y]
    ELSE IF k = t.key[x] THEN [dup |-> x, y |-> x]
    ELSE insert_loop(t, k, IF k < t.key[x] THEN t.left[x] ELSE t.right[x], x)

\* BST.insert with the new node linked on the wrong side of y.
insert_wrong_side(t, k) ==
    LET w == insert_loop(t, k, t.root, None)
        y == w.y
        z == NewId(t, k)
        t1 == BSTNode(t, k, y)
        t2 == IF y = None THEN [t1 EXCEPT !.root = z]
              ELSE IF k < t.key[y] THEN [t1 EXCEPT !.right[y] = z]
              ELSE [t1 EXCEPT !.left[y] = z]
    IN  IF w.dup # None THEN [t |-> t, ret |-> <<None, w.dup>>]
        ELSE [t |-> t2, ret |-> <<z, y>>]

\* BST.insert: the tree afterwards and the returned pair (node, parent).
insert(t, k) ==
    LET w == insert_loop(t, k, t.root, None)
        y == w.y
        z == NewId(t, k)
        t1 == BSTNode(t, k, y)
        t2 == IF y = None THEN [t1 EXCEPT !.root = z]
              ELSE IF k < t.key[y] THEN [t1 EXCEPT !.left[y] = z]
              ELSE [t1 EXCEPT !.right[y] = z]
    IN  IF w.dup # None THEN [t |-> t, ret |-> <<None, w.dup>>]
        ELSE [t |-> t2, ret |-> <<z, y>>]

\* The while loop of BST.search from node x with the path so far.
RECURSIVE search_loop(_, _, _, _)
search_loop(t, k, x, path) ==
    IF x = None THEN <<path, None>>
    ELSE IF k = t.key[x] THEN <<Append(path, x), x>>
    ELSE search_loop(t, k, IF k < t.key[x] THEN t.left[x] ELSE t.right[x],
                     Append(path, x))

\* The while loop of BST.search with the node appended to the path only
\* after the test for an equal key.
RECURSIVE search_loop_late_append(_, _, _, _)
search_loop_late_append(t, k, x, path) ==
    IF x = None THEN <<path, None>>
    ELSE IF k = t.key[x] THEN <<path, x>>
    ELSE search_loop_late_append(t, k,
             IF k < t.key[x] THEN t.left[x] ELSE t.right[x], Append(path, x))

\* BST.search with the late append.
search_late_append(t, k) == search_loop_late_append(t, k, t.root, <<>>)

\* BST.search: the pair (path, found).
search(t, k) == search_loop(t, k, t.root, <<>>)

\* BST.minimum that returns its argument without following left links.
minimum_no_descent(t, x) == x

\* BST.minimum.  The loop condition reads x.left, which raises AttributeError
\* when x is None.
RECURSIVE minimum(_, _)
minimum(t, x) ==
    IF x = None THEN AttributeError
    ELSE IF t.left[x] # None THEN minimum(t, t.left[x]) ELSE x

\* BST.transplant that leaves BST.root alone when u has no parent.
transplant_skips_root(t, u, v) ==
    LET p == t.parent[u]
        t1 == IF p = None THEN t
              ELSE IF is_left_child(t, u) THEN [t EXCEPT !.left[p] = v]
              ELSE [t EXCEPT !.right[p] = v]
    IN  IF v # None THEN [t1 EXCEPT !.parent[v] = p] ELSE t1

\* BST.transplant that always writes the left link of u's parent.
transplant_left_only(t, u, v) ==
    LET p == t.parent[u]
        t1 == IF p = None THEN [t EXCEPT !.root = v]
              ELSE [t EXCEPT !.left[p] = v]
    IN  IF v # None THEN [t1 EXCEPT !.parent[v] = p] ELSE t1

\* BST.transplant without the re-pointing of v.parent.
transplant_keeps_parent(t, u, v) ==
    LET p == t.parent[u]
    IN  IF p = None THEN [t EXCEPT !.root = v]
        ELSE IF is_left_child(t, u) THEN [t EXCEPT !.left[p] = v]
        ELSE [t EXCEPT !.right[p] = v]

\* BST.transplant
transplant(t, u, v) ==
    LET p == t.parent[u]
        t1 == IF p = None THEN [t EXCEPT !.root = v]
              ELSE IF is_left_child(t, u) THEN [t EXCEPT !.left[p] = v]
              ELSE [t EXCEPT !.right[p] = v]
    IN  IF v # None THEN [t1 EXCEPT !.parent[v] = p] ELSE t1

\* A two-children delete that copies the successor's key into z and unlinks
\* the successor y instead of z.
delete_two_copy_key(t, z) ==
    LET y == minimum(t, t.right[z])
        a == transplant(t, y, t.right[y])
    IN  [a EXCEPT !.key[z] = t.key[y]]

\* The two-children branch of BST.delete without self.transplant(y, y.right):
\* y stays the child of its former parent.
delete_two_no_detach(t, z) ==
    LET y == minimum(t, t.right[z])
        t1 == IF t.parent[y] # z
              THEN LET b == [t EXCEPT !.right[y] = t.right[z]]
                   IN  IF b.right[y] # None
                       THEN [b EXCEPT !.parent[b.right[y]] = y] ELSE b
              ELSE t
        t2 == transplant(t1, z, y)
        t3 == [t2 EXCEPT !.left[y] = t2.left[z]]
    IN  IF t3.left[y] # None THEN [t3 EXCEPT !.parent[t3.left[y]] = y] ELSE t3

\* The two-children branch of BST.delete without y.right = z.right and
\* y.right.parent = y.
delete_two_drops_right(t, z) ==
    LET y == minimum(t, t.right[z])
        t1 == IF t.parent[y] # z
              THEN transplant(t, y, t.right[y])
              ELSE t
        t2 == transplant(t1, z, y)
        t3 == [t2 EXCEPT !.left[y] = t2.left[z]]
    IN  IF t3.left[y] # None THEN [t3 EXCEPT !.parent[t3.left[y]] = y] ELSE t3

\* The two-children branch of BST.delete without its last statement
\* y.left.parent = y.
delete_two_left_parent_stale(t, z) ==
    LET y == minimum(t, t.right[z])
        t1 == IF t.parent[y] # z
              THEN LET a == transplant(t, y, t.right[y])
                       b == [a EXCEPT !.right[y] = a.right[z]]
                   IN  IF b.right[y] # None
                       THEN [b EXCEPT !.parent[b.right[y]] = y] ELSE b
              ELSE t
        t2 == transplant(t1, z, y)
    IN  [t2 EXCEPT !.left[y] = t2.left[z]]

\* The two-children branch of BST.delete: y = minimum(z.right) replaces z.
delete_two(t, z) ==
    LET y == minimum(t, t.right[z])
        t1 == IF t.parent[y] # z
              THEN LET a == transplant(t, y, t.right[y])
                       b == [a EXCEPT !.right[y] = a.right[z]]
                   IN  IF b.right[y] # None
                       THEN [b EXCEPT !.parent[b.right[y]] = y] ELSE b
              ELSE t
        t2 == transplant(t1, z, y)
        t3 == [t2 EXCEPT !.left[y] = t2.left[z]]
    IN  IF t3.left[y] # None THEN [t3 EXCEPT !.parent[t3.left[y]] = y] ELSE t3

\* The while loop of BST.search that reports the last node visited when it
\* falls off the tree.
RECURSIVE search_loop_last(_, _, _, _)
search_loop_last(t, k, x, path) ==
    IF x = None
    THEN <<path, IF path = <<>> THEN None ELSE path[Len(path)]>>
    ELSE IF k = t.key[x] THEN <<Append(path, x), x>>
    ELSE search_loop_last(t, k,
             IF k < t.key[x] THEN t.left[x] ELSE t.right[x], Append(path, x))

\* BST.delete that takes the last node search visited as the node to remove.
delete_last_visited(t, k) ==
    LET z == search_loop_last(t, k, t.root, <<>>)[2]
    IN  IF z = None THEN [t |-> t, ret |-> None]
        ELSE [t |-> transplant(t, z, None), ret |-> z]

\* BST.delete that splices the right child up when the node has a left child
\* and no right child.
delete_splices_right(t, k) ==
    LET z == search(t, k)[2]
    IN  IF z = None THEN [t |-> t, ret |-> None]
        ELSE IF t.left[z] = None
             THEN [t |-> transplant(t, z, t.right[z]), ret |-> z]
        ELSE IF t.right[z] = None
             THEN [t |-> transplant(t, z, t.right[z]), ret |-> z]
        ELSE IF minimum(t, t.right[z]) = AttributeError
             THEN [t |-> t, ret |-> AttributeError]
        ELSE [t |-> delete_two(t, z), ret |-> z]

\* BST.delete without its test for a missing right child: a node with a left
\* child always takes the two-children branch.
delete_no_right_test(t, k) ==
    LET z == search(t, k)[2]
    IN  IF z = None THEN [t |-> t, ret |-> None]
        ELSE IF t.left[z] = None
             THEN [t |-> transplant(t, z, t.right[z]), ret |-> z]
        ELSE IF minimum(t, t.right[z]) = AttributeError
             THEN [t |-> t, ret |-> AttributeError]
        ELSE [t |-> delete_two(t, z), ret |-> z]

\* BST.delete: the tree afterwards and the returned node (or None).  An
\* exception raised by minimum, the first statement of the two-children
\* branch, leaves delete before anything is written.
delete(t, k) ==
    LET z == search(t, k)[2]
    IN  IF z = None THEN [t |-> t, ret |-> None]
        ELSE IF t.left[z] = None
             THEN [t |-> transplant(t, z, t.right[z]), ret |-> z]
        ELSE IF t.right[z] = None
             THEN [t |-> transplant(t, z, t.left[z]), ret |-> z]
        ELSE IF minimum(t, t.right[z]) = AttributeError
             THEN [t |-> t, ret |-> AttributeError]
        ELSE [t |-> delete_two(t, z), ret |-> z]

\* dfs of BST.inorder: keys of the subtree of n, left - node - right.
RECURSIVE inorder_dfs(_, _)
inorder_dfs(t, n) ==
    IF n = None THEN <<>>
    ELSE inorder_dfs(t, t.left[n]) \o <<t.key[n]>> \o inorder_dfs(t, t.right[n])

\* A traversal that appends the node's key before it visits the left subtree.
RECURSIVE preorder_dfs(_, _)
preorder_dfs(t, n) ==
    IF n = None THEN <<>>
    ELSE <<t.key[n]>> \o preorder_dfs(t, t.left[n]) \o preorder_dfs(t, t.right[n])

\* BST.inorder with the key appended before the left subtree is visited.
inorder_preorder(t) == preorder_dfs(t, t.root)

\* BST.inorder
inorder(t) == inorder_dfs(t, t.root)

\* dfs of BST.nodes: nodes of the subtree of n, left - node - right.
RECURSIVE nodes_dfs(_, _)
nodes_dfs(t, n) ==
    IF n = None THEN <<>>
    ELSE nodes_dfs(t, t.left[n]) \o <<n>> \o nodes_dfs(t, t.right[n])

\* BST.nodes with the node appended before the left subtree is visited.
RECURSIVE nodes_preorder_dfs(_, _)
nodes_preorder_dfs(t, n) ==
    IF n = None THEN <<>>
    ELSE <<n>> \o nodes_preorder_dfs(t, t.left[n])
             \o nodes_preorder_dfs(t, t.right[n])

nodes_preorder(t) == nodes_preorder_dfs(t, t.root)

\* BST.nodes
nodes(t) == nodes_dfs(t, t.root)

\* h of BST.depth
RECURSIVE h(_, _)
h(t, n) ==
    IF n = None THEN 0
    ELSE LET a == h(t, t.left[n])
             b == h(t, t.right[n])
         IN  1 + (IF a >= b THEN a ELSE b)

\* A height that counts links instead of nodes: 0 for a single node.
RECURSIVE h_links(_, _)
h_links(t, n) ==
    IF n = None \/ (t.left[n] = None /\ t.right[n] = None) THEN 0
    ELSE LET a == h_links(t, t.left[n])
             b == h_links(t, t.right[n])
         IN  1 + (IF a >= b THEN a ELSE b)

\* BST.depth counting links instead of nodes.
depth_in_links(t) == h_links(t, t.root)

\* BST.depth
depth(t) == h(t, t.root)

\* BST.clear
clear(t) == [t EXCEPT !.root = None]

-----------------------------------------------------------------------------
\* The record of the last call: its name, its key argument, what it returned
\* (a node, or AttributeError, in node; the second node of insert's pair, or
\* the node argument of minimum, in parent; a path or a list in seq; a number
\* in num), inorder() as it was just before the call,
\* and the name and the returned node of the call made right before it when
\* that call had the same key argument.
Call(op, k, node, par, seq, num) ==
    [op |-> op, key |-> k, node |-> node, parent |-> par, seq |-> seq,
     num |-> num, before |-> inorder(bst),
     prev |-> IF k # None /\ last.key = k
              THEN [op |-> last.op, node |-> last.node]
              ELSE [op |-> "", node |-> None]]

\* The heap becomes t.  No method of BST refers to the visualizer's map.
Becomes(t) ==
    /\ root' = t.root
    /\ key' = t.key
    /\ left' = t.left
    /\ right' = t.right
    /\ parent' = t.parent
    /\ node_item' = node_item

\* BST.__init__: the empty tree, no node constructed yet.
Init ==
    /\ root = None
    /\ key = <<>>
    /\ left = <<>>
    /\ right = <<>>
    /\ parent = <<>>
    /\ last = [op |-> "init", key |-> None, node |-> None, parent |-> None,
               seq |-> <<>>, num |-> 0, before |-> <<>>,
               prev |-> [op |-> "", node |-> None]]
    /\ node_item = <<>>

\* A call bst.insert(k).
DoInsert(k) ==
    LET r == insert(collect(bst), k)
    IN  /\ Becomes(r.t)
        /\ last' = Call("insert", k, r.ret[1], r.ret[2], <<>>, 0)

\* A call bst.delete(k).
DoDelete(k) ==
    LET r == delete(collect(bst), k)
    IN  /\ Becomes(r.t)
        /\ last' = Call("delete", k, r.ret, None, <<>>, 0)

\* A call bst.search(k).
DoSearch(k) ==
    /\ Becomes(collect(bst))
    /\ LET r == search(collect(bst), k)
       IN  last' = Call("search", k, r[2], None, r[1], 0)

Insert == \E k \in Keys : DoInsert(k)

Delete == \E k \in Keys : DoDelete(k)

Search == \E k \in Keys : DoSearch(k)

Inorder ==
    /\ Becomes(collect(bst))
    /\ last' = Call("inorder", None, None, None, inorder(collect(bst)), 0)

Nodes ==
    /\ Becomes(collect(bst))
    /\ last' = Call("nodes", None, None, None, nodes(collect(bst)), 0)

Depth ==
    /\ Becomes(collect(bst))
    /\ last' = Call("depth", None, None, None, <<>>, depth(collect(bst)))

\* A call bst.minimum(x), with x a node of the tree or None (as is bst.root of
\* an empty tree, or a missing child).
Minimum ==
    \E x \in Objs(collect(bst)) \cup {None} :
        /\ Becomes(collect(bst))
        /\ last' = Call("minimum", None, minimum(collect(bst), x), x, <<>>, 0)

Clear ==
    /\ Becomes(collect(clear(collect(bst))))
    /\ last' = Call("clear", None, None, None, <<>>, 0)

Next ==
    \/ Insert \/ Delete \/ Search \/ Minimum
    \/ Inorder \/ Nodes \/ Depth \/ Clear

Spec == Init /\ [][Next]_vars

-----------------------------------------------------------------------------
\* The concrete scenario: the keys 8, 3, 10, 1, 6, 14, 4, 7, 13 are inserted in
\* that order into the empty tree, then one key is deleted, then one key is
\* searched.  The deleted and the searched key are any key of 0..MaxProbe.
ScenarioKeys == <<8, 3, 10, 1, 6, 14, 4, 7, 13>>

MaxProbe == 15

Probes == 0..MaxProbe

ScenarioInsert ==
    /\ last.op \in {"init", "insert"}
    /\ Len(inorder(bst)) < Len(ScenarioKeys)
    /\ DoInsert(ScenarioKeys[Len(inorder(bst)) + 1])

ScenarioDelete ==
    /\ last.op = "insert"
    /\ Len(inorder(bst)) = Len(ScenarioKeys)
    /\ \E k \in Probes : DoDelete(k)

ScenarioSearch ==
    /\ last.op = "delete"
    /\ \E k \in Probes : DoSearch(k)

ScenarioNext == ScenarioInsert \/ ScenarioDelete \/ ScenarioSearch

ScenarioSpec == Init /\ [][ScenarioNext]_vars

-----------------------------------------------------------------------------
(* BSTVisualizer: the tree self.bst and the map self.node_item from the    *)
(* nodes shown to their items; an item is held as the key it displays.     *)

\* Bound of the model: the input line holds at most MaxNums numbers.
MaxNums == 2

\* What parse_numbers can return: the numbers of the input line, in order.
Inputs == UNION {[1..n -> Keys] : n \in 0..MaxNums}

\* The heap with only the objects referenced from the nodes of S in it.
retain(t, S) ==
    LET R == Referenced(t, S \ {None})
    IN  [root |-> t.root,
         key |-> [n \in R |-> t.key[n]],
         left |-> [n \in R |-> t.left[n]],
         right |-> [n \in R |-> t.right[n]],
         parent |-> [n \in R |-> t.parent[n]]]

\* The visualizer as a handler starts: the heap, node_item, and the local
\* name removed_node of on_delete_clicked, not bound yet.
viz == [t |-> bst, node_item |-> node_item, removed_node |-> None]

\* dict.pop(n, None): the map m without the key n.
pop(m, n) == [x \in DOMAIN m \ {n} |-> m[x]]

\* BSTVisualizer.cleanup_orphans: node_item without the nodes that
\* self.bst.nodes() does not return.
cleanup_orphans(v) ==
    LET alive == {nodes(v.t)[i] : i \in DOMAIN nodes(v.t)}
    IN  [v EXCEPT !.node_item = [n \in DOMAIN @ \cap alive |-> @[n]]]

\* The loop "for x in nums" of on_insert_clicked from the i-th number on: a
\* key already present is passed over (the list dup of these keys is only
\* shown in a message box), a new node gets its item.
RECURSIVE on_insert_loop(_, _, _)
on_insert_loop(v, nums, i) ==
    IF i > Len(nums) THEN v
    ELSE LET r == insert(v.t, nums[i])
             node == r.ret[1]
         IN  IF node = None
             THEN on_insert_loop(v, nums, i + 1)
             ELSE on_insert_loop([v EXCEPT !.t = r.t,
                                           !.node_item = (node :> nums[i]) @@ @],
                                 nums, i + 1)

\* BSTVisualizer.on_insert_clicked with nums the parsed input.
on_insert_clicked(v, nums) ==
    IF nums = <<>> THEN v ELSE on_insert_loop(v, nums, 1)

\* BSTVisualizer.on_delete_clicked with nums the parsed input: the first
\* number is the key.  An exception leaves the handler at the call of delete.
on_delete_clicked(v, nums) ==
    IF nums = <<>> THEN v
    ELSE LET r == delete(v.t, nums[1])
         IN  IF r.ret = None \/ r.ret = AttributeError THEN v
             ELSE cleanup_orphans([v EXCEPT !.t = r.t,
                                            !.removed_node = r.ret,
                                            !.node_item = pop(@, r.ret)])

\* BSTVisualizer.on_clear_clicked that leaves node_item as it is.
on_clear_clicked_keeps_items(v) ==
    [v EXCEPT !.t = clear(v.t)]

\* BSTVisualizer.on_clear_clicked
on_clear_clicked(v) ==
    [v EXCEPT !.t = clear(v.t), !.node_item = <<>>]

\* A handler returns with the visualizer as v: its local names are dropped,
\* and the objects referenced from the root or from node_item remain.
Returns(v) ==
    LET t == retain(v.t, {v.t.root} \cup DOMAIN v.node_item)
    IN  /\ root' = t.root
        /\ key' = t.key
        /\ left' = t.left
        /\ right' = t.right
        /\ parent' = t.parent
        /\ node_item' = v.node_item

\* What a handler leaves in last: its name, the node that
\* on_delete_clicked had in removed_node (the identity only: the object is
\* gone once the handler has returned), and in num len(self.node_item) as the
\* handler returns, the count that on_insert_clicked and on_delete_clicked
\* write to the status line.
Handled(op, v) ==
    [op |-> op, key |-> None, node |-> v.removed_node, parent |-> None,
     seq |-> <<>>, num |-> Cardinality(DOMAIN v.node_item), before |-> <<>>,
     prev |-> [op |-> "", node |-> None]]

OnInsertClicked ==
    \E nums \in Inputs :
        LET v == on_insert_clicked(viz, nums)
        IN  /\ Returns(v)
            /\ last' = Handled("on_insert_clicked", v)

\* on_delete_clicked reads nums[0] only: one number on the input line, or
\* none.
OnDeleteClicked ==
    \E nums \in {q \in Inputs : Len(q) <= 1} :
        LET v == on_delete_clicked(viz, nums)
        IN  /\ Returns(v)
            /\ last' = Handled("on_delete_clicked", v)

OnClearClicked ==
    LET v == on_clear_clicked(viz)
    IN  /\ Returns(v)
        /\ last' = Handled("on_clear_clicked", v)

VizNext == OnInsertClicked \/ OnDeleteClicked \/ OnClearClicked

VizSpec == Init /\ [][VizNext]_vars

-----------------------------------------------------------------------------
(* Vocabulary of the properties. *)

\* The elements of a sequence.
Range(q) == {q[i] : i \in DOMAIN q}

\* The nodes reachable from the nodes of S through left and right links, and
\* S itself.
RECURSIVE Desc(_, _)
Desc(t, S) ==
    LET S2 == S \cup (({t.left[n] : n \in S} \cup {t.right[n] : n \in S}) \ {None})
    IN  IF S2 = S THEN S ELSE Desc(t, S2)

\* The nodes of the subtree of n (none when n is None).
Subtree(t, n) == Desc(t, {n} \ {None})

\* The nodes of the tree: those reachable from the root.
TreeNodes(t) == Subtree(t, t.root)

\* The keys held by the tree.
KeySet(t) == {t.key[n] : n \in TreeNodes(t)}

\* The node of the tree that holds key k.
NodeOf(t, k) == CHOOSE n \in TreeNodes(t) : t.key[n] = k

StrictlyAscending(q) == \A i \in 1..(Len(q) - 1) : q[i] < q[i + 1]

\* The tree of t with every object that is not referenced from it left out.
Tree(t) == collect(t)

\* The tree and the fields of every existing node after a step.
bstAfter == [root |-> root', key |-> key', left |-> left', right |-> right',
             parent |-> parent']

\* The last call was delete and removed a node.
Deleted == last.op = "delete" /\ last.node # None

-----------------------------------------------------------------------------
\* C1: in every reachable state, for every node n of the tree, every key in
\* the subtree of n.left is smaller than n.key and every key in the subtree of
\* n.right is greater than n.key, and no two nodes of the tree hold the same
\* key.
C1_BstOrdering ==
    /\ \A n \in TreeNodes(bst) :
          /\ \A m \in Subtree(bst, left[n]) : key[m] < key[n]
          /\ \A m \in Subtree(bst, right[n]) : key[m] > key[n]
    /\ \A n, m \in TreeNodes(bst) : n # m => key[n] # key[m]

\* C1 witness: a node with two children has just been deleted from a tree that
\* still holds three keys or more on three levels or more.
C1_Witness ==
    /\ Deleted
    /\ left[last.node] # None /\ right[last.node] # None
    /\ Cardinality(TreeNodes(bst)) >= 3
    /\ depth(bst) >= 3

\* C2: inorder() is strictly ascending and its elements are the keys present:
\* none at the start and after clear(), those present before the call plus k
\* after insert(k), those present before the call minus k after delete(k), and
\* those present before the call after any other call.
C2_InorderIsKeySet ==
    LET now == Range(inorder(bst))
        was == Range(last.before)
    IN  /\ StrictlyAscending(inorder(bst))
        /\ Len(inorder(bst)) = Cardinality(now)
        /\ now = CASE last.op = "init" -> {}
                    [] last.op = "clear" -> {}
                    [] last.op = "insert" -> was \cup {last.key}
                    [] last.op = "delete" -> was \ {last.key}
                    [] OTHER -> was
        /\ last.op = "inorder" => last.seq = inorder(bst)

\* C2 witness: a delete has removed a key from a tree of four keys or more.
C2_Witness ==
    /\ Deleted
    /\ Len(last.before) >= 4
    /\ Len(inorder(bst)) = Len(last.before) - 1

\* C3: at the end of every call, the root's parent is None; every node of the
\* tree whose parent is a node p is exactly one of p.left and p.right; and a
\* left or right child of a node p of the tree has p as its parent.
C3_ParentChildLinks ==
    /\ root # None => parent[root] = None
    /\ \A n \in TreeNodes(bst) :
          /\ parent[n] # None =>
                /\ parent[n] \in TreeNodes(bst)
                /\ (left[parent[n]] = n) # (right[parent[n]] = n)
          /\ left[n] # None => parent[left[n]] = n
          /\ right[n] # None => parent[right[n]] = n

\* C3 witness: delete has removed a leaf that was not the root, so that
\* transplant(u, None) ran.
C3_Witness ==
    /\ Deleted
    /\ left[last.node] = None /\ right[last.node] = None
    /\ parent[last.node] # None
    /\ Cardinality(TreeNodes(bst)) >= 2

\* C4: insert(k) on a tree that holds k returns (None, the node of the tree
\* whose key is k) and leaves the tree as it was: same root, same nodes, same
\* keys and left, right and parent links, same inorder() and depth(), with k
\* in inorder() exactly once.
C4_DuplicateInsertNoOp ==
    [][(last'.op = "insert" /\ last'.key \in KeySet(bst)) =>
         /\ last'.node = None
         /\ last'.parent \in TreeNodes(bst)
         /\ key[last'.parent] = last'.key
         /\ Tree(bstAfter) = Tree(bst)
         /\ TreeNodes(bstAfter) = TreeNodes(bst)
         /\ inorder(bstAfter) = inorder(bst)
         /\ depth(bstAfter) = depth(bst)
         /\ LET io == inorder(bstAfter)
            IN  Cardinality({i \in DOMAIN io : io[i] = last'.key}) = 1]_vars

\* C4 witness: an insert of a key that a tree of three keys or more already
\* held has returned no new node.
C4_Witness ==
    /\ last.op = "insert"
    /\ last.key \in Range(last.before)
    /\ last.node = None
    /\ Len(last.before) >= 3

\* C5: delete(k) on a tree that does not hold k returns None and leaves the
\* tree as it was: same root, same nodes, same keys and links, same inorder().
C5_DeleteAbsentNoOp ==
    [][(last'.op = "delete" /\ last'.key \notin KeySet(bst)) =>
         /\ last'.node = None
         /\ Tree(bstAfter) = Tree(bst)
         /\ root' = root
         /\ inorder(bstAfter) = inorder(bst)]_vars

\* C5 witness: a delete of a key that a tree of three keys or more did not
\* hold has returned None.
C5_Witness ==
    /\ last.op = "delete"
    /\ last.key \notin Range(last.before)
    /\ last.node = None
    /\ Len(last.before) >= 3

\* C6 as stated: for any key k, insert(k) followed at once by delete(k) leaves
\* the set of keys that was present before the insert.
C6_InsertDeleteInverse_AnyKey ==
    [][(last.op = "insert" /\ last'.op = "delete" /\ last'.key = last.key) =>
         KeySet(bstAfter) = Range(last.before)]_vars

\* C6 amended: for any key k that the tree does not hold, insert(k) followed
\* at once by delete(k) leaves the set of keys that was present before the
\* insert.
C6_InsertDeleteInverse ==
    [][(/\ last.op = "insert" /\ last.key \notin Range(last.before)
        /\ last'.op = "delete" /\ last'.key = last.key) =>
         /\ KeySet(bstAfter) = Range(last.before)
         /\ Range(inorder(bstAfter)) = Range(last.before)]_vars

\* C6 witness: delete(k) has removed the node that the call right before it,
\* insert(k), had added to a tree of three keys or more.
C6_Witness ==
    /\ Deleted
    /\ last.prev.op = "insert"
    /\ last.prev.node = last.node
    /\ Len(inorder(bst)) >= 3

\* What C7 says of the result r of search(k) in tree t.
SearchTrail(t, k, r) ==
    LET path == r[1]
        found == r[2]
        side(n) == IF k < t.key[n] THEN t.left[n] ELSE t.right[n]
    IN  /\ (path = <<>>) <=> (t.root = None)
        /\ path # <<>> => path[1] = t.root
        /\ \A i \in 1..(Len(path) - 1) :
              /\ k # t.key[path[i]]
              /\ path[i + 1] # None
              /\ path[i + 1] = side(path[i])
        /\ found # None =>
              /\ path # <<>>
              /\ found = path[Len(path)]
              /\ t.key[found] = k
        /\ (found = None /\ path # <<>>) =>
              /\ k # t.key[path[Len(path)]]
              /\ side(path[Len(path)]) = None
        /\ (found # None) <=> (k \in KeySet(t))

\* C7: search(k) returns the comparison trail from the root (empty exactly
\* when the tree is empty), ending at the node that holds k, which is found,
\* or at a node with no child on k's side, with found None; found is a node
\* exactly when the tree holds k; and the tree is left as it was.
C7_SearchPath ==
    [][last'.op = "search" =>
         /\ SearchTrail(bst, last'.key, <<last'.seq, last'.node>>)
         /\ Tree(bstAfter) = Tree(bst)]_vars

\* C7 witness: a search has found its key at the end of a path of three nodes
\* or more.
C7_Witness ==
    /\ last.op = "search"
    /\ last.node # None
    /\ Len(last.seq) >= 3

\* C8: insert(k) on a tree that does not hold k returns (z, y): z is a new
\* node with key k, no children and parent y; y is the last node of the path
\* of search(k) before the call, or None when the tree was empty, and then z
\* is the root; z is y's left child if k < y.key and its right child
\* otherwise, in a slot that was empty; no other root, key or link changes.
C8_InsertAddsLeaf ==
    [][(last'.op = "insert" /\ last'.key \notin KeySet(bst)) =>
         LET t == Tree(bst)
             k == last'.key
             z == last'.node
             y == last'.parent
             path == search(t, k)[1]
         IN  /\ z # None /\ z \notin Objs(t)
             /\ Objs(bstAfter) = Objs(t) \cup {z}
             /\ TreeNodes(bstAfter) = TreeNodes(bst) \cup {z}
             /\ key'[z] = k /\ left'[z] = None /\ right'[z] = None
             /\ parent'[z] = y
             /\ y = IF path = <<>> THEN None ELSE path[Len(path)]
             /\ y = None => (root = None /\ root' = z)
             /\ y # None =>
                   /\ root' = root
                   /\ IF k < key[y] THEN left[y] = None /\ left'[y] = z
                      ELSE right[y] = None /\ right'[y] = z
             /\ \A n \in Objs(t) :
                   /\ key'[n] = key[n]
                   /\ parent'[n] = parent[n]
                   /\ (n = y /\ k < key[y]) \/ left'[n] = left[n]
                   /\ (n = y /\ k > key[y]) \/ right'[n] = right[n]]_vars

\* C8 witness: an insert has added a node at depth three or more.
C8_Witness ==
    /\ last.op = "insert"
    /\ last.node # None
    /\ last.parent # None
    /\ parent[last.parent] # None

-----------------------------------------------------------------------------
(* The concrete scenario, under ScenarioSpec. *)

\* inorder() once the nine keys are inserted, and once 3 is deleted too.
ScenarioInorder == <<1, 3, 4, 6, 7, 8, 10, 13, 14>>

ScenarioInorderWithout3 == <<1, 4, 6, 7, 8, 10, 13, 14>>

\* The keys of the nodes of a path.
KeysOf(t, path) == [i \in DOMAIN path |-> t.key[path[i]]]

\* C9 as stated: delete(3) takes the node with key 6 as the successor, and
\* afterwards that node is the left child of the node with key 8 and has the
\* node with key 1 as its left child.
C9_SuccessorIs6 ==
    [][(last'.op = "delete" /\ last'.key = 3) =>
         LET y == minimum(bst, right[NodeOf(bst, 3)])
         IN  /\ key[y] = 6
             /\ left'[NodeOf(bstAfter, 8)] = NodeOf(bstAfter, 6)
             /\ left'[NodeOf(bstAfter, 6)] = NodeOf(bstAfter, 1)]_vars

\* C9 amended: delete(3) takes the node with key 4, the minimum of the right
\* subtree of 3, as the successor; afterwards that node is the left child of
\* the node with key 8, has the node with key 1 as its left child and the
\* node with key 6 as its right child, and the node with key 6 has no left
\* child any more.
C9_SuccessorIs4 ==
    [][(last'.op = "delete" /\ last'.key = 3) =>
         LET z == NodeOf(bst, 3)
             y == minimum(bst, right[z])
             n8 == NodeOf(bstAfter, 8)
             n6 == NodeOf(bstAfter, 6)
             n1 == NodeOf(bstAfter, 1)
         IN  /\ key[y] = 4 /\ key'[y] = 4
             /\ left[z] = n1 /\ right[z] = n6 /\ parent[z] = n8
             /\ left[n8] = z
             /\ last'.node = z
             /\ left'[n8] = y /\ parent'[y] = n8
             /\ left'[y] = n1 /\ parent'[n1] = y
             /\ right'[y] = n6 /\ parent'[n6] = y
             /\ left'[n6] = None
             /\ z \notin TreeNodes(bstAfter)]_vars

\* C9 witness: delete(3) has removed a node from the tree of the nine keys.
C9_Witness ==
    /\ Deleted
    /\ last.key = 3
    /\ last.before = ScenarioInorder

\* C10: after the nine inserts inorder() is [1,3,4,6,7,8,10,13,14] and depth()
\* is 4; after delete(3) inorder() is [1,4,6,7,8,10,13,14]; search(13) then
\* returns the path of the nodes with keys [8,10,14,13] and the node with key
\* 13 as found.
C10_ScenarioResults ==
    /\ (last.op = "insert" /\ Len(inorder(bst)) = Len(ScenarioKeys)) =>
          /\ inorder(bst) = ScenarioInorder
          /\ depth(bst) = 4
    /\ (last.op = "delete" /\ last.key = 3) =>
          /\ last.before = ScenarioInorder
          /\ inorder(bst) = ScenarioInorderWithout3
    /\ (/\ last.op = "search" /\ last.key = 13
        /\ last.before = ScenarioInorderWithout3) =>
          /\ KeysOf(bst, last.seq) = <<8, 10, 14, 13>>
          /\ last.node = last.seq[Len(last.seq)]
          /\ last.node \in TreeNodes(bst)
          /\ key[last.node] = 13

\* C10 witness: search(13) has run on the tree left by the nine inserts and
\* delete(3).
C10_Witness ==
    /\ last.op = "search"
    /\ last.key = 13
    /\ last.before = ScenarioInorderWithout3
    /\ last.node # None

-----------------------------------------------------------------------------
\* A call has raised an exception.
Raised == last.node = AttributeError

\* C11 as stated: on an empty tree or an empty subtree reference minimum
\* returns None, depth() returns 0 and inorder() returns the empty sequence,
\* and no call raises an exception.
C11_EmptyTreeNeverRaises ==
    /\ ~Raised
    /\ (last.op = "minimum" /\ last.parent = None) => last.node = None
    /\ (last.op = "depth" /\ root = None) => last.num = 0
    /\ (last.op = "inorder" /\ root = None) => last.seq = <<>>

\* C11 amended: on an empty tree depth() returns 0, and inorder() and nodes()
\* return the empty sequence; minimum raises AttributeError when its argument
\* is None (the root of an empty tree, a missing child) and returns a node of
\* the tree otherwise; no other call raises, whether the tree is empty or not.
C11_EmptyTreeOps ==
    /\ Raised <=> (last.op = "minimum" /\ last.parent = None)
    /\ (last.op = "minimum" /\ last.parent # None) =>
          last.node \in TreeNodes(bst)
    /\ (last.op = "depth" /\ root = None) => last.num = 0
    /\ (last.op \in {"inorder", "nodes"} /\ root = None) => last.seq = <<>>
    /\ root = None =>
          (depth(bst) = 0 /\ inorder(bst) = <<>> /\ nodes(bst) = <<>>)

\* C11 witness: minimum has been called with None on the empty tree.
C11_Witness ==
    /\ last.op = "minimum"
    /\ last.parent = None
    /\ root = None
    /\ Raised

\* C12: the tree is EMPTY (root is None) exactly when inorder() is empty, and
\* it starts EMPTY.  A step from EMPTY to NON_EMPTY is an insert that returns
\* a new node; a step from NON_EMPTY to EMPTY is clear() or the delete of the
\* only key; these calls do make those steps, clear() from any state; any
\* other call (insert of a key present, search, minimum, delete of a key
\* absent, delete with two keys or more present, inorder, nodes, depth) leaves
\* EMPTY EMPTY and NON_EMPTY NON_EMPTY; and an insert right after clear()
\* makes its new node the root.
C12_EmptyNonEmpty ==
    /\ root = None
    /\ []((root = None) <=> (inorder(bst) = <<>>))
    /\ [][LET op == last'.op
              k == last'.key
              held == k \in KeySet(bst)
          IN  /\ (root = None /\ root' # None) =>
                    (op = "insert" /\ last'.node # None)
              /\ (root # None /\ root' = None) =>
                    \/ op = "clear"
                    \/ op = "delete" /\ inorder(bst) = <<k>>
              /\ op = "clear" => root' = None
              /\ (op = "delete" /\ inorder(bst) = <<k>>) => root' = None
              /\ (op = "insert" /\ ~held) => root' # None
              /\ (\/ op \in {"search", "minimum", "inorder", "nodes", "depth"}
                  \/ op = "insert" /\ held
                  \/ op = "delete" /\ ~held
                  \/ op = "delete" /\ held /\ Len(inorder(bst)) >= 2) =>
                    ((root' = None) <=> (root = None))
              /\ (last.op = "clear" /\ op = "insert") =>
                    (last'.node # None /\ root' = last'.node)]_vars

\* C12 witness: the delete of the only key has left the tree EMPTY.
C12_Witness ==
    /\ Deleted
    /\ Len(last.before) = 1
    /\ root = None

\* C13: a call delete(k) with k in the tree returns the node that held k, and
\* after it that node is not reachable from the root and no node reachable from
\* the root has it as its left, right or parent.
C13_DeletedNodeUnlinked ==
    [][(last'.op = "delete" /\ last'.key \in KeySet(bst)) =>
         LET z == last'.node
         IN  /\ z = NodeOf(bst, last'.key)
             /\ key'[z] = last'.key
             /\ z \notin TreeNodes(bstAfter)
             /\ \A n \in TreeNodes(bstAfter) :
                    /\ left'[n] # z
                    /\ right'[n] # z
                    /\ parent'[n] # z]_vars

\* C13 witness: a node with two children has been deleted, and its own left
\* and right still refer to nodes of the tree.
C13_Witness ==
    /\ Deleted
    /\ left[last.node] \in TreeNodes(bst)
    /\ right[last.node] \in TreeNodes(bst)

\* The node with the smallest key among the nodes of the subtree of n.
SmallestIn(t, n) ==
    CHOOSE y \in Subtree(t, n) : \A m \in Subtree(t, n) : t.key[y] <= t.key[m]

\* C14: when delete(k) removes a node z with both children, and y is the node
\* with the smallest key of z's right subtree, then after the call y is where
\* z was (the root, or the child of z's former parent on the same side) and
\* y.left is z's former left child; if y was not z's right child, y's former
\* right subtree is where y was and y.right is z's former right child;
\* otherwise y keeps its right subtree.
C14_SuccessorSplice ==
    [][(/\ last'.op = "delete"
        /\ last'.key \in KeySet(bst)
        /\ left[NodeOf(bst, last'.key)] # None
        /\ right[NodeOf(bst, last'.key)] # None) =>
         LET z == NodeOf(bst, last'.key)
             p == parent[z]
             y == SmallestIn(bst, right[z])
             q == parent[y]
         IN  /\ last'.node = z
             /\ parent'[y] = p
             /\ IF p = None THEN root' = y
                ELSE /\ left[p] = z => (left'[p] = y /\ right'[p] = right[p])
                     /\ right[p] = z => (right'[p] = y /\ left'[p] = left[p])
             /\ left'[y] = left[z]
             /\ parent'[left[z]] = y
             /\ Subtree(bstAfter, right[y]) = Subtree(bst, right[y])
             /\ IF y # right[z]
                THEN /\ left[q] = y
                     /\ left'[q] = right[y]
                     /\ right[y] # None => parent'[right[y]] = q
                     /\ right'[y] = right[z]
                     /\ parent'[right[z]] = y
                ELSE right'[y] = right[y]]_vars

\* C14 witness: a node with two children has been deleted, the node that took
\* its place was not its right child, and that node's former slot, below the
\* deleted node's former right child, is taken again.
C14_Witness ==
    /\ Deleted
    /\ left[last.node] \in TreeNodes(bst)
    /\ right[last.node] \in TreeNodes(bst)
    /\ parent[left[last.node]] # right[last.node]
    /\ parent[right[last.node]] = parent[left[last.node]]
    /\ left[right[last.node]] # None

\* C15: when delete(k) removes a node z that has no left child, z's right
\* child (or None) takes z's place; when z has a left child and no right child,
\* its left child does: the root or the link of z's former parent that held z
\* now holds that child, the child's parent is z's former parent, and every
\* other left, right and parent link of the remaining nodes, and the root when
\* z was not the root, is as before.
C15_SingleChildSplice ==
    [][(/\ last'.op = "delete"
        /\ last'.key \in KeySet(bst)
        /\ \/ left[NodeOf(bst, last'.key)] = None
           \/ right[NodeOf(bst, last'.key)] = None) =>
         LET z == NodeOf(bst, last'.key)
             p == parent[z]
             c == IF left[z] = None THEN right[z] ELSE left[z]
         IN  /\ last'.node = z
             /\ root' = IF root = z THEN c ELSE root
             /\ (p = None) <=> (root = z)
             /\ TreeNodes(bstAfter) = TreeNodes(bst) \ {z}
             /\ \A n \in TreeNodes(bst) \ {z} :
                    /\ left'[n] = IF left[n] = z THEN c ELSE left[n]
                    /\ right'[n] = IF right[n] = z THEN c ELSE right[n]
                    /\ parent'[n] = IF n = c THEN p ELSE parent[n]]_vars

\* C15 witness: a node below the root with a left child and no right child has
\* been deleted, and its left child is now a child of its former parent.
C15_Witness ==
    /\ Deleted
    /\ right[last.node] = None
    /\ left[last.node] \in TreeNodes(bst)
    /\ parent[last.node] \in TreeNodes(bst)
    /\ parent[left[last.node]] = parent[last.node]

\* The number of left and right links of nodes of the tree that refer to n.
LinksTo(t, n) ==
    Cardinality({m \in TreeNodes(t) : t.left[m] = n})
        + Cardinality({m \in TreeNodes(t) : t.right[m] = n})

\* C16: in every reachable state no node of the tree is reachable from its own
\* children (the left/right links form no cycle), no link refers to the root
\* and exactly one link refers to every other node of the tree (one path from
\* the root to each node); so the loops of insert, search and minimum and the
\* recursions of inorder, nodes and depth end: the traversals visit each node
\* once, depth is at most the number of nodes, and a search path is no longer
\* than depth.
C16_Terminates ==
    /\ \A n \in TreeNodes(bst) :
           n \notin Desc(bst, {left[n], right[n]} \ {None})
    /\ root # None => LinksTo(bst, root) = 0
    /\ \A n \in TreeNodes(bst) \ {root} : LinksTo(bst, n) = 1
    /\ Len(nodes(bst)) = Cardinality(TreeNodes(bst))
    /\ Len(inorder(bst)) = Cardinality(TreeNodes(bst))
    /\ depth(bst) <= Cardinality(TreeNodes(bst))
    /\ last.op = "search" => Len(last.seq) <= depth(bst)
    /\ last.op = "depth" => last.num = depth(bst)
    /\ last.op \in {"insert", "search", "minimum", "delete", "inorder",
                    "nodes", "depth", "clear", "init"}

\* C16 witness: a node with two children has been deleted from a tree that
\* held every key, and the tree is three levels deep or more.
C16_Witness ==
    /\ Deleted
    /\ left[last.node] \in TreeNodes(bst)
    /\ right[last.node] \in TreeNodes(bst)
    /\ Cardinality(TreeNodes(bst)) = MaxKey - 1
    /\ depth(bst) >= 3

\* C17: in every reachable state nodes() holds exactly the nodes reachable
\* from the root, each once, every node after all nodes of its left subtree and
\* before all nodes of its right subtree, and the keys of its nodes in order
\* are inorder(); a call nodes() returns that sequence and leaves the root and
\* every field of every node of the tree as it was.
C17_NodesAgreesWithInorder ==
    /\ [](LET q == nodes(bst)
          IN  /\ Range(q) = TreeNodes(bst)
              /\ Len(q) = Cardinality(TreeNodes(bst))
              /\ KeysOf(bst, q) = inorder(bst)
              /\ \A i, j \in DOMAIN q :
                     /\ q[j] \in Subtree(bst, left[q[i]]) => j < i
                     /\ q[j] \in Subtree(bst, right[q[i]]) => i < j)
    /\ [][last'.op = "nodes" =>
             /\ last'.seq = nodes(bst)
             /\ KeysOf(bst, last'.seq) = last'.before
             /\ Tree(bstAfter) = Tree(bst)
             /\ nodes(bstAfter) = nodes(bst)]_vars

\* C17 witness: nodes() has returned three nodes or more of a tree whose root
\* has both children, so the root is neither first nor last.
C17_Witness ==
    /\ last.op = "nodes"
    /\ Len(last.seq) >= 3
    /\ last.seq[1] # root
    /\ last.seq[Len(last.seq)] # root

\* C18: no step changes the key of a node of the tree that still exists after
\* it; and a call delete(k) with k in the tree keeps every node of the tree in
\* existence with its key, the returned node included, and leaves reachable
\* from the root exactly the nodes that were, minus the returned node: when
\* the removed node had two children, the node now in its place is the very
\* node that held the smallest key of its right subtree.
C18_DeleteRelinksOnly ==
    [][/\ \A n \in TreeNodes(bst) \cap DOMAIN key' : key'[n] = key[n]
       /\ (last'.op = "delete" /\ last'.key \in KeySet(bst)) =>
             LET z == NodeOf(bst, last'.key)
             IN  /\ last'.node = z
                 /\ TreeNodes(bst) \subseteq DOMAIN key'
                 /\ TreeNodes(bstAfter) = TreeNodes(bst) \ {z}
                 /\ (left[z] # None /\ right[z] # None) =>
                        LET y == SmallestIn(bst, right[z])
                        IN  /\ y \in TreeNodes(bstAfter)
                            /\ left'[y] = left[z]
                            /\ parent'[y] = parent[z]
                            /\ key'[y] = key[y]]_vars

\* C18 witness: a node with two children has been deleted; it still holds its
\* key, and the node now above its former left child is another node, with a
\* greater key.
C18_Witness ==
    /\ Deleted
    /\ last.node \notin TreeNodes(bst)
    /\ key[last.node] = last.key
    /\ left[last.node] \in TreeNodes(bst)
    /\ right[last.node] \in TreeNodes(bst)
    /\ key[parent[left[last.node]]] > last.key

\* C19: after every completed on_insert_clicked, on_delete_clicked and
\* on_clear_clicked, in any order, the keys of node_item are exactly the nodes
\* that bst.nodes() returns, so len(node_item), the node count the insert and
\* delete handlers report, is len(bst.inorder()).
C19_DisplayTracksTree ==
    /\ DOMAIN node_item = Range(nodes(bst))
    /\ Cardinality(DOMAIN node_item) = Len(inorder(bst))
    /\ last.op \in {"on_insert_clicked", "on_delete_clicked",
                    "on_clear_clicked"} => last.num = Len(inorder(bst))

\* C19 witness: on_delete_clicked has removed a node from a tree of four
\* nodes or more, and three or more nodes are still shown.
C19_Witness ==
    /\ last.op = "on_delete_clicked"
    /\ last.node # None
    /\ Cardinality(DOMAIN node_item) >= 3

====
